---- MODULE Spec2Model ----
(***************************************************************************)
(* Model of stm32f1xx-hal's alternate-function I/O handle (src/afio.rs)    *)
(* and of the CAN facade (src/can.rs).                                     *)
(*                                                                         *)
(* The AFIO_MAPR register is a record of the fields the code touches:      *)
(* swj_cfg (3 bits), can1_remap (2 bits, called can_remap on chips without *)
(* the "connectivity" feature), can2_remap (1 bit, connectivity only) and  *)
(* one further remap field standing for the rest of the register.          *)
(* Ownership (move semantics) is modelled by who holds a value: a pin pair *)
(* is with the caller, inside an Alt token, or handed to assign_pins.      *)
(* last and disable_calls are history variables: the last operation done   *)
(* through the handle (with swj_cfg before it and the swj_cfg its closure  *)
(* asked for) and the number of disable_jtag calls so far.                 *)
(* remaps, accepted and routed are history variables too: how often each  *)
(* pin pair was remapped, which facade took each pair's token, and the     *)
(* pairs whose remap field held their pattern when the token was taken.    *)
(***************************************************************************)
EXTENDS Integers, FiniteSets, Sequences, TLC

VARIABLES connectivity, acquired, jtag_enabled, mapr, dbg_pins, pin_pairs,
          cans, usb_taken, last, disable_calls, pc,
          remaps, accepted, routed

vars == << connectivity, acquired, jtag_enabled, mapr, dbg_pins, pin_pairs,
           cans, usb_taken, last, disable_calls, pc,
           remaps, accepted, routed >>

(* ---------------------------------------------------------------- bounds *)

\* Largest value of the register field that stands for the remap fields the
\* model does not name.
MaxOther == 1

\* disable_jtag calls are counted up to this number.
MaxDisableCalls == 2

\* remap calls of one pin pair are counted up to this number.
MaxRemaps == 2

(* ------------------------------------------------------------- the data *)

Pers == {"CAN1", "CAN2"}

DebugPins == {"PA15", "PB3", "PB4"}

Pairs == {"PA12_PA11", "PB9_PB8", "PB13_PB12", "PB6_PB5"}

RegValues == [swj_cfg : 0..7, can1_remap : 0..3, can2_remap : 0..1,
              other : 0..MaxOther]

\* Value of AFIO_MAPR after the peripheral reset issued by constrain.
MaprReset == [swj_cfg |-> 0, can1_remap |-> 0, can2_remap |-> 0, other |-> 0]

\* The peripheral an impl Remap<PER> is written for.
RemapPer(pair) == IF pair \in {"PA12_PA11", "PB9_PB8"} THEN "CAN1" ELSE "CAN2"

\* The pin pairs that implement Remap on a chip variant.
RemapPairs(conn) ==
  {"PA12_PA11", "PB9_PB8"} \cup (IF conn THEN {"PB13_PB12", "PB6_PB5"} ELSE {})

\* Mutant: the PB9/PB8 impl writes 0b01 instead of 0b10.
RemapWriteWrongBits(pair, w) ==
  CASE pair = "PA12_PA11" -> [w EXCEPT !.can1_remap = 0]
    [] pair = "PB9_PB8"   -> [w EXCEPT !.can1_remap = 1]
    [] pair = "PB13_PB12" -> [w EXCEPT !.can2_remap = 0]
    [] pair = "PB6_PB5"   -> [w EXCEPT !.can2_remap = 1]

\* Mutant: the closure builds its value from the reset value, as a plain
\* write would, instead of from the value read.
RemapWriteFromReset(pair, w) ==
  CASE pair = "PA12_PA11" -> [MaprReset EXCEPT !.can1_remap = 0]
    [] pair = "PB9_PB8"   -> [MaprReset EXCEPT !.can1_remap = 2]
    [] pair = "PB13_PB12" -> [MaprReset EXCEPT !.can2_remap = 0]
    [] pair = "PB6_PB5"   -> [MaprReset EXCEPT !.can2_remap = 1]

\* The closure each remap impl passes to modify_mapr.
RemapWrite(pair, w) ==
  CASE pair = "PA12_PA11" -> [w EXCEPT !.can1_remap = 0]
    [] pair = "PB9_PB8"   -> [w EXCEPT !.can1_remap = 2]
    [] pair = "PB13_PB12" -> [w EXCEPT !.can2_remap = 0]
    [] pair = "PB6_PB5"   -> [w EXCEPT !.can2_remap = 1]

\* The remap field of the peripheral a pin pair belongs to.
RemapField(r, pair) ==
  IF RemapPer(pair) = "CAN1" THEN r.can1_remap ELSE r.can2_remap

\* The bit pattern each impl Remap writes for its pin pair.
PairPattern(pair) ==
  CASE pair = "PA12_PA11" -> 0
    [] pair = "PB9_PB8"   -> 2
    [] pair = "PB13_PB12" -> 0
    [] pair = "PB6_PB5"   -> 1

\* Mutant: the branches of the flag test are swapped.
DebugBitsSwapped(flag) == IF flag THEN 2 ELSE 0

\* let debug_bits = if self.jtag_enabled { 0b000 } else { 0b010 };
DebugBits(flag) == IF flag THEN 0 ELSE 2

\* Mutant: the write keeps what the caller's closure left in swj_cfg.
MaprWriteNoOverride(flag, modded) == modded

\* The value modify_mapr writes: the caller's closure result with swj_cfg
\* forced to the handle's pattern.
MaprWrite(flag, modded) == [modded EXCEPT !.swj_cfg = DebugBits(flag)]

\* Pin::activate on a Debugger pin gives the pin as floating input.
Activate(mode) == IF mode = "Debugger" THEN "InputFloating" ELSE mode

(* ----------------------------------------------------- trait impls, can.rs *)

InstanceImpl(conn) == {"CAN1"} \cup (IF conn THEN {"CAN2"} ELSE {})

NUM_FILTER_BANKS == 28

\* Mutant: FilterOwner is implemented for the second peripheral too.
FilterOwnerImplBoth(conn) == InstanceImpl(conn)

FilterOwnerImpl(conn) == {"CAN1"}

\* Mutant: the impl lacks its cfg(feature = "connectivity") attribute.
MasterInstanceImplNoCfg(conn) == {"CAN1"}

MasterInstanceImpl(conn) == IF conn THEN {"CAN1"} ELSE {}

\* What a facade of peripheral per hands to the bus driver.
FilterBanks(per, conn) ==
  IF per \in FilterOwnerImpl(conn) THEN NUM_FILTER_BANKS ELSE -1

(* ------------------------------------------------------------------ Init *)

NoOp == [op |-> "none", pair |-> "none", req |-> 0, pre |-> 0]

Init ==
  /\ connectivity \in BOOLEAN
  /\ acquired = FALSE
  /\ jtag_enabled = TRUE
  /\ mapr \in {r \in RegValues : connectivity \/ r.can2_remap = 0}
  /\ dbg_pins = [p \in DebugPins |-> "Debugger"]
  /\ pin_pairs = [p \in Pairs |-> "caller"]
  /\ cans = {}
  /\ usb_taken = FALSE
  /\ last = NoOp
  /\ disable_calls = 0
  /\ pc = "idle"
  /\ remaps = [p \in Pairs |-> 0]
  /\ accepted = [p \in Pairs |-> "none"]
  /\ routed = {}

(* --------------------------------------------------------------- actions *)

\* Mutant: constrain without AFIO::reset.
constrain_no_reset ==
  /\ pc = "idle"
  /\ ~acquired
  /\ acquired' = TRUE
  /\ jtag_enabled' = TRUE
  /\ mapr' = mapr
  /\ last' = [op |-> "constrain", pair |-> "none", req |-> 0,
              pre |-> mapr.swj_cfg]
  /\ UNCHANGED << connectivity, dbg_pins, pin_pairs, cans, usb_taken,
                  disable_calls, pc >>
  /\ UNCHANGED << remaps, accepted, routed >>

\* Mutant: constrain borrows the AFIO peripheral and can be called again.
constrain_reusable ==
  /\ pc = "idle"
  /\ acquired' = TRUE
  /\ jtag_enabled' = TRUE
  /\ mapr' = MaprReset
  /\ last' = [op |-> "constrain", pair |-> "none", req |-> 0,
              pre |-> mapr.swj_cfg]
  /\ UNCHANGED << connectivity, dbg_pins, pin_pairs, cans, usb_taken,
                  disable_calls, pc >>
  /\ UNCHANGED << remaps, accepted, routed >>

\* AfioExt::constrain consumes the AFIO peripheral, resets it and returns
\* the handle with jtag_enabled = true.
constrain ==
  /\ pc = "idle"
  /\ ~acquired
  /\ acquired' = TRUE
  /\ jtag_enabled' = TRUE
  /\ mapr' = MaprReset
  /\ last' = [op |-> "constrain", pair |-> "none", req |-> 0,
              pre |-> mapr.swj_cfg]
  /\ UNCHANGED << connectivity, dbg_pins, pin_pairs, cans, usb_taken,
                  disable_calls, pc >>
  /\ UNCHANGED << remaps, accepted, routed >>

\* The register values a caller's closure can return on this chip variant.
Transforms(conn, r) ==
  {w \in RegValues : conn \/ w.can2_remap = r.can2_remap}

\* MAPR::modify_mapr with a caller-supplied closure that returns modded.
modify_mapr(modded) ==
  /\ pc = "idle"
  /\ acquired
  /\ mapr' = MaprWrite(jtag_enabled, modded)
  /\ last' = [op |-> "modify_mapr", pair |-> "none", req |-> modded.swj_cfg,
              pre |-> mapr.swj_cfg]
  /\ UNCHANGED << connectivity, acquired, jtag_enabled, dbg_pins, pin_pairs,
                  cans, usb_taken, disable_calls, pc >>
  /\ UNCHANGED << remaps, accepted, routed >>

\* Mutant: remap borrows the pin pair instead of taking it by value.
remap_borrowing(pair) ==
  /\ pc = "idle"
  /\ acquired
  /\ pair \in RemapPairs(connectivity)
  /\ mapr' = MaprWrite(jtag_enabled, RemapWrite(pair, mapr))
  /\ pin_pairs' = [pin_pairs EXCEPT ![pair] = "alt"]
  /\ last' = [op |-> "remap", pair |-> pair, req |-> mapr.swj_cfg,
              pre |-> mapr.swj_cfg]
  /\ UNCHANGED << connectivity, acquired, jtag_enabled, dbg_pins, cans,
                  usb_taken, disable_calls, pc >>
  /\ remaps[pair] < MaxRemaps
  /\ remaps' = [remaps EXCEPT ![pair] = @ + 1]
  /\ UNCHANGED << accepted, routed >>

\* Remap::remap of one pin pair: one modify_mapr, the pair moves into Alt.
remap(pair) ==
  /\ pc = "idle"
  /\ acquired
  /\ pair \in RemapPairs(connectivity)
  /\ pin_pairs[pair] = "caller"
  /\ mapr' = MaprWrite(jtag_enabled, RemapWrite(pair, mapr))
  /\ pin_pairs' = [pin_pairs EXCEPT ![pair] = "alt"]
  /\ last' = [op |-> "remap", pair |-> pair, req |-> mapr.swj_cfg,
              pre |-> mapr.swj_cfg]
  /\ UNCHANGED << connectivity, acquired, jtag_enabled, dbg_pins, cans,
                  usb_taken, disable_calls, pc >>
  /\ remaps[pair] < MaxRemaps
  /\ remaps' = [remaps EXCEPT ![pair] = @ + 1]
  /\ UNCHANGED << accepted, routed >>

\* Mutant: disable_jtag takes the pins in any mode.
disable_jtag_any_mode ==
  LET flag1 == FALSE
      reg1  == MaprWrite(flag1, mapr)
  IN /\ pc = "idle"
     /\ acquired
     /\ disable_calls < MaxDisableCalls
     /\ jtag_enabled' = flag1
     /\ mapr' = reg1
     /\ dbg_pins' = [p \in DebugPins |-> Activate(dbg_pins[p])]
     /\ disable_calls' = disable_calls + 1
     /\ last' = [op |-> "disable_jtag", pair |-> "none",
                 req |-> mapr.swj_cfg, pre |-> mapr.swj_cfg]
     /\ UNCHANGED << connectivity, acquired, pin_pairs, cans, usb_taken, pc >>
     /\ UNCHANGED << remaps, accepted, routed >>

\* Mutant: the register is written before the flag is cleared.
disable_jtag_write_first ==
  LET reg1  == MaprWrite(jtag_enabled, mapr)
      flag1 == FALSE
  IN /\ pc = "idle"
     /\ acquired
     /\ \A p \in DebugPins : dbg_pins[p] = "Debugger"
     /\ disable_calls < MaxDisableCalls
     /\ jtag_enabled' = flag1
     /\ mapr' = reg1
     /\ dbg_pins' = [p \in DebugPins |-> Activate(dbg_pins[p])]
     /\ disable_calls' = disable_calls + 1
     /\ last' = [op |-> "disable_jtag", pair |-> "none",
                 req |-> mapr.swj_cfg, pre |-> mapr.swj_cfg]
     /\ UNCHANGED << connectivity, acquired, pin_pairs, cans, usb_taken, pc >>
     /\ UNCHANGED << remaps, accepted, routed >>

\* MAPR::disable_jtag, the whole call: clear the flag, modify_mapr with the
\* closure |_, w| w, then activate the three pins.
disable_jtag ==
  LET flag1 == FALSE
      reg1  == MaprWrite(flag1, mapr)
  IN /\ pc = "idle"
     /\ acquired
     /\ \A p \in DebugPins : dbg_pins[p] = "Debugger"
     /\ disable_calls < MaxDisableCalls
     /\ jtag_enabled' = flag1
     /\ mapr' = reg1
     /\ dbg_pins' = [p \in DebugPins |-> Activate(dbg_pins[p])]
     /\ disable_calls' = disable_calls + 1
     /\ last' = [op |-> "disable_jtag", pair |-> "none",
                 req |-> mapr.swj_cfg, pre |-> mapr.swj_cfg]
     /\ UNCHANGED << connectivity, acquired, pin_pairs, cans, usb_taken, pc >>
     /\ UNCHANGED << remaps, accepted, routed >>

\* The same call statement by statement: self.jtag_enabled = false;
disable_jtag_set_flag ==
  /\ pc = "idle"
  /\ acquired
  /\ \A p \in DebugPins : dbg_pins[p] = "Debugger"
  /\ disable_calls < MaxDisableCalls
  /\ jtag_enabled' = FALSE
  /\ disable_calls' = disable_calls + 1
  /\ last' = [op |-> "disable_jtag", pair |-> "none",
              req |-> mapr.swj_cfg, pre |-> mapr.swj_cfg]
  /\ pc' = "flag_cleared"
  /\ UNCHANGED << connectivity, acquired, mapr, dbg_pins, pin_pairs, cans,
                  usb_taken >>
  /\ UNCHANGED << remaps, accepted, routed >>

\* Mutant: the modify_mapr call is left out.
disable_jtag_write_skipped ==
  /\ pc = "flag_cleared"
  /\ mapr' = mapr
  /\ pc' = "written"
  /\ UNCHANGED << connectivity, acquired, jtag_enabled, dbg_pins, pin_pairs,
                  cans, usb_taken, last, disable_calls >>
  /\ UNCHANGED << remaps, accepted, routed >>

\* self.modify_mapr(|_, w| w);
disable_jtag_write ==
  /\ pc = "flag_cleared"
  /\ mapr' = MaprWrite(jtag_enabled, mapr)
  /\ pc' = "written"
  /\ UNCHANGED << connectivity, acquired, jtag_enabled, dbg_pins, pin_pairs,
                  cans, usb_taken, last, disable_calls >>
  /\ UNCHANGED << remaps, accepted, routed >>

\* (pa15.activate(), pb3.activate(), pb4.activate())
\* one pin after the other, in the order of the tuple.
disable_jtag_activate(p) ==
  /\ pc = CASE p = "PA15" -> "written"
            [] p = "PB3"  -> "activated_pa15"
            [] p = "PB4"  -> "activated_pb3"
  /\ dbg_pins' = [dbg_pins EXCEPT ![p] = Activate(@)]
  /\ pc' = CASE p = "PA15" -> "activated_pa15"
             [] p = "PB3"  -> "activated_pb3"
             [] p = "PB4"  -> "idle"
  /\ UNCHANGED << connectivity, acquired, jtag_enabled, mapr, pin_pairs,
                  cans, usb_taken, last, disable_calls >>
  /\ UNCHANGED << remaps, accepted, routed >>

\* Can::new: consumes the peripheral (and USB without "connectivity").
new(per) ==
  /\ pc = "idle"
  /\ per \in InstanceImpl(connectivity)
  /\ per \notin cans
  /\ connectivity \/ ~usb_taken
  /\ cans' = cans \cup {per}
  /\ usb_taken' = IF connectivity THEN usb_taken ELSE TRUE
  /\ UNCHANGED << connectivity, acquired, jtag_enabled, mapr, dbg_pins,
                  pin_pairs, last, disable_calls, pc >>
  /\ UNCHANGED << remaps, accepted, routed >>

\* Mutant: assign_pins takes the Alt token of any peripheral.
assign_pins_any_token(per, pair) ==
  /\ pc = "idle"
  /\ per \in cans
  /\ pin_pairs[pair] = "alt"
  /\ pin_pairs' = [pin_pairs EXCEPT ![pair] = "assigned"]
  /\ UNCHANGED << connectivity, acquired, jtag_enabled, mapr, dbg_pins,
                  cans, usb_taken, last, disable_calls, pc >>
  /\ accepted' = [accepted EXCEPT ![pair] = per]
  /\ routed' = IF RemapField(mapr, pair) = PairPattern(pair)
              THEN routed \cup {pair} ELSE routed
  /\ UNCHANGED remaps

\* Can::assign_pins: takes an Alt token whose peripheral is the facade's.
assign_pins(per, pair) ==
  /\ pc = "idle"
  /\ per \in cans
  /\ pin_pairs[pair] = "alt"
  /\ RemapPer(pair) = per
  /\ pin_pairs' = [pin_pairs EXCEPT ![pair] = "assigned"]
  /\ UNCHANGED << connectivity, acquired, jtag_enabled, mapr, dbg_pins,
                  cans, usb_taken, last, disable_calls, pc >>
  /\ accepted' = [accepted EXCEPT ![pair] = per]
  /\ routed' = IF RemapField(mapr, pair) = PairPattern(pair)
              THEN routed \cup {pair} ELSE routed
  /\ UNCHANGED remaps

Next ==
  \/ constrain
  \/ \E modded \in Transforms(connectivity, mapr) : modify_mapr(modded)
  \/ \E pair \in Pairs : remap(pair)
  \/ disable_jtag
  \/ \E per \in Pers : new(per)
  \/ \E per \in Pers, pair \in Pairs : assign_pins(per, pair)

Spec == Init /\ [][Next]_vars

\* The specification in which disable_jtag runs statement by statement.
NextSteps ==
  \/ constrain
  \/ \E modded \in Transforms(connectivity, mapr) : modify_mapr(modded)
  \/ \E pair \in Pairs : remap(pair)
  \/ disable_jtag_set_flag
  \/ disable_jtag_write
  \/ \E p \in DebugPins : disable_jtag_activate(p)
  \/ \E per \in Pers : new(per)
  \/ \E per \in Pers, pair \in Pairs : assign_pins(per, pair)

SpecSteps == Init /\ [][NextSteps]_vars

(* ---------------------------------------------------------------- claims *)

C2_RemapKeepsDebugBits ==
  last.op = "remap" => mapr.swj_cfg = last.pre

\* A remap done after the debug port was disabled.
C2_Witness ==
  /\ last.op = "remap"
  /\ ~jtag_enabled
  /\ last.pre = 2
  /\ mapr.swj_cfg = 2

\* C3: once disable_jtag has been called, every modify_mapr, whatever its
\* closure writes into swj_cfg, leaves swj_cfg at 0b010.
C3_OverrideWins ==
  (last.op = "modify_mapr" /\ disable_calls > 0) => mapr.swj_cfg = 2

\* After disable_jtag a closure wrote the 'enabled' pattern 0b000.
C3_Witness ==
  /\ last.op = "modify_mapr"
  /\ disable_calls > 0
  /\ last.req = 0
  /\ mapr.swj_cfg = 2

\* C4: between calls on the acquired handle, swj_cfg is the pattern the
\* flag selects: 0b000 while jtag_enabled, 0b010 once it is false.
C4_RegisterFollowsFlag ==
  (acquired /\ pc = "idle") =>
    /\ jtag_enabled => mapr.swj_cfg = 0
    /\ ~jtag_enabled => mapr.swj_cfg = 2

\* The flag is still set and a closure has just tried to write 0b111.
C4_Witness ==
  /\ acquired
  /\ jtag_enabled
  /\ last.op = "modify_mapr"
  /\ last.req = 7
  /\ mapr.swj_cfg = 0

\* C5: disable_jtag ends with swj_cfg = 0b010, the flag false and PA15, PB3
\* and PB4 in floating-input mode.
C5_DisableJtagResult ==
  (last.op = "disable_jtag" /\ pc = "idle") =>
    /\ mapr.swj_cfg = 2
    /\ ~jtag_enabled
    /\ \A p \in DebugPins : dbg_pins[p] = "InputFloating"

\* disable_jtag has just returned, with CAN1 remapped before it.
C5_Witness ==
  /\ last.op = "disable_jtag"
  /\ last.pre = 0
  /\ mapr.can1_remap = 2
  /\ dbg_pins["PA15"] = "InputFloating"

\* C6: once the flag is false it stays false and swj_cfg stays 0b010 in
\* every later state.
C6_OneWay ==
  [][(~jtag_enabled /\ pc = "idle") =>
       (~jtag_enabled' /\ mapr'.swj_cfg = 2)]_vars

\* A state two handle operations after the debug port was disabled.
C6_Witness ==
  /\ ~jtag_enabled
  /\ disable_calls = 1
  /\ last.op = "remap"
  /\ last.pre = 2

\* C7: disable_jtag happens at most once: after the first call none of the
\* three pins is in debug mode and the call is not enabled again.
C7_DisableAtMostOnce ==
  /\ disable_calls <= 1
  /\ (disable_calls = 1 /\ pc = "idle") =>
       /\ \A p \in DebugPins : dbg_pins[p] # "Debugger"
       /\ ~ENABLED disable_jtag

\* The single call has happened and the handle is still in use.
C7_Witness ==
  /\ disable_calls = 1
  /\ \A p \in DebugPins : dbg_pins[p] = "InputFloating"
  /\ last.op = "modify_mapr"

\* C8: the table of can.rs: CAN2 on PB6/PB5 is the no-remap routing (bit
\* clear), on PB13/PB12 the remap routing (bit set); CAN1 on PA12/PA11 is
\* no-remap, on PB9/PB8 remap.
C8_DocTable ==
  last.op = "remap" =>
    /\ last.pair = "PB6_PB5"   => mapr.can2_remap = 0
    /\ last.pair = "PB13_PB12" => mapr.can2_remap = 1
    /\ last.pair = "PA12_PA11" => mapr.can1_remap = 0
    /\ last.pair = "PB9_PB8"   => mapr.can1_remap = 2

\* C9 as stated: every facade, Can<CAN2> with its token assigned included,
\* exposes its identity and the filter-bank count.
C9_AllExposeFilterBanks ==
  \A per \in cans :
    /\ per \in InstanceImpl(connectivity)
    /\ per \in FilterOwnerImpl(connectivity)
    /\ FilterBanks(per, connectivity) = 28

\* C9 amended: every facade exposes its identity; the filter-bank count
\* (28) is exposed by the facade of CAN1 and by no other.
C9_OnlyCan1OwnsFilters ==
  \A per \in cans :
    /\ per \in InstanceImpl(connectivity)
    /\ per \in FilterOwnerImpl(connectivity) <=> per = "CAN1"
    /\ per = "CAN1" => FilterBanks(per, connectivity) = 28
    /\ per # "CAN1" => FilterBanks(per, connectivity) # 28

\* The facade of CAN2 exists and has been given its PB6/PB5 token.
C9_Witness ==
  /\ "CAN2" \in cans
  /\ pin_pairs["PB6_PB5"] = "assigned"
  /\ mapr.can2_remap = 1

\* C10: with two bus peripherals the facade of CAN1 is the one arbitration
\* master and the facade of CAN2 is not; with one bus peripheral no facade
\* is a master.
C10_MasterOnlyCan1OnDual ==
  /\ \A per \in cans :
       per \in MasterInstanceImpl(connectivity) <=>
         (connectivity /\ per = "CAN1")
  /\ connectivity =>
       Cardinality(InstanceImpl(connectivity)
                     \cap MasterInstanceImpl(connectivity)) = 1
  /\ ~connectivity =>
       InstanceImpl(connectivity) \cap MasterInstanceImpl(connectivity) = {}

\* Both facades exist on a connectivity chip.
C10_Witness ==
  /\ connectivity
  /\ cans = {"CAN1", "CAN2"}

\* C11: the facade of peripheral Y takes only tokens made for Y, never one
\* made by remapping a pin pair of another peripheral, and a token exists
\* only as the result of a remap call.
C11_OnlyMatchingTokens ==
  /\ accepted["PA12_PA11"] \in {"none", "CAN1"}
  /\ accepted["PB9_PB8"] \in {"none", "CAN1"}
  /\ accepted["PB13_PB12"] \in {"none", "CAN2"}
  /\ accepted["PB6_PB5"] \in {"none", "CAN2"}
  /\ \A pair \in Pairs :
       /\ pin_pairs[pair] # "caller" => remaps[pair] >= 1
       /\ (pin_pairs[pair] = "assigned") <=> (accepted[pair] # "none")

\* Both facades exist, CAN2's has taken its token and a CAN1 token waits.
C11_Witness ==
  /\ cans = {"CAN1", "CAN2"}
  /\ accepted["PB6_PB5"] = "CAN2"
  /\ pin_pairs["PB9_PB8"] = "alt"

\* C12: whenever assign_pins takes the token of a pin pair, the remap field
\* of the peripheral holds that pair's pattern at that moment.
C12_AcceptedMeansRouted ==
  \A pair \in Pairs : accepted[pair] # "none" => pair \in routed

\* C13: also inside disable_jtag, no pin of PA15, PB3, PB4 is in
\* floating-input mode while the flag or swj_cfg still say 'enabled'.
C13_FlagAndWriteBeforePins ==
  \A p \in DebugPins :
    dbg_pins[p] = "InputFloating" => (~jtag_enabled /\ mapr.swj_cfg = 2)

\* Inside disable_jtag: PA15 is activated, PB3 and PB4 are not yet.
C13_Witness ==
  /\ pc = "activated_pa15"
  /\ dbg_pins["PA15"] = "InputFloating"
  /\ dbg_pins["PB4"] = "Debugger"
  /\ ~jtag_enabled
  /\ mapr.swj_cfg = 2

\* C14: a pin pair is remapped at most once: after remap the pair is never
\* with the caller again, so one token per pin pair is made at most.
C14_RemapAtMostOnce ==
  \A pair \in Pairs :
    /\ remaps[pair] <= 1
    /\ (pin_pairs[pair] = "caller") <=> (remaps[pair] = 0)
    /\ remaps[pair] = 1 => ~ENABLED remap(pair)

\* Both CAN1 pairs have been remapped, one token is already handed over.
C14_Witness ==
  /\ remaps["PA12_PA11"] = 1
  /\ remaps["PB9_PB8"] = 1
  /\ pin_pairs["PA12_PA11"] = "assigned"
  /\ pin_pairs["PB9_PB8"] = "alt"

\* C15: a remap step changes no register field but its own peripheral's
\* remap field (and re-writes swj_cfg) and leaves the flag alone; a
\* disable_jtag step changes no register field but swj_cfg.
C15_FrameOfRemapAndDisable ==
  [][/\ \A pair \in Pairs :
          (pin_pairs[pair] = "caller" /\ pin_pairs'[pair] = "alt") =>
            /\ mapr'.other = mapr.other
            /\ pair \in {"PA12_PA11", "PB9_PB8"} =>
                 mapr'.can2_remap = mapr.can2_remap
            /\ pair \in {"PB13_PB12", "PB6_PB5"} =>
                 mapr'.can1_remap = mapr.can1_remap
            /\ jtag_enabled' = jtag_enabled
     /\ disable_calls' # disable_calls =>
          /\ mapr'.other = mapr.other
          /\ mapr'.can1_remap = mapr.can1_remap
          /\ mapr'.can2_remap = mapr.can2_remap]_vars

\* CAN2 was remapped last, with CAN1 on PB9/PB8, another field set and the
\* debug port disabled before.
C15_Witness ==
  /\ last.op = "remap"
  /\ last.pair = "PB13_PB12"
  /\ mapr.can1_remap = 2
  /\ mapr.other = 1
  /\ disable_calls = 1

====
